---- MODULE Spec2Model ----
(***************************************************************************)
(* quicklyHttps: the parameter store (Client and Request setters), request  *)
(* assembly (Request.newRequest), the bounded-retry executor               *)
(* (Request.Execute / Request.Do) with the client configuration it reads,  *)
(* the response body cache (Response.Body and the operations built on     *)
(* it), and the verb helpers Client.Get / Client.Post called by several    *)
(* threads.                                                                *)
(*                                                                         *)
(* Conventions.  A Go string is a sequence of one-character strings.  A    *)
(* pointer is a sequence of length at most one: << >> is the nil pointer,  *)
(* <<v>> points to v.  A Go error is a string, "" being the nil error.     *)
(* A []byte is a sequence of numbers 0..255; the nil slice is NilBytes,    *)
(* which differs from the empty non-nil slice << >>.  A map[string]string  *)
(* is a function whose domain is the set of its keys.                      *)
(***************************************************************************)
EXTENDS Integers, Sequences, FiniteSets, TLC

\* ------------------------------------------------------------------ bounds
MaxRetryArg == 3
MaxSetterCalls == 2
MaxExecutes == 2
NumThreads == 2
MaxCalls == 2
MaxReadFailures == 1

\* --------------------------------------------------------------- constants
retryMax == 5
DefaultTimeout == 30

NoErr == ""
defaultHeaderAuthorizationKey ==
    <<"A", "u", "t", "h", "o", "r", "i", "z", "a", "t", "i", "o", "n">>
defaultAuthScheme == <<"B", "e", "a", "r", "e", "r">>
MethodGet == "GET"
ContentTypeKey ==
    <<"C", "o", "n", "t", "e", "n", "t", "-", "T", "y", "p", "e">>
ContentTypeJson ==
    <<"a", "p", "p", "l", "i", "c", "a", "t", "i", "o", "n", "/", "j", "s",
      "o", "n">>
ContentTypeText == <<"t", "e", "x", "t", "/", "p", "l", "a", "i", "n">>

\* ------------------------------------------------------- inputs (bounded)
RetryArgs == (-1) .. MaxRetryArg
Credentials == {[Username |-> <<"u">>, Password |-> <<"p">>]}
Tokens == {<< >>, <<" ">>, <<"t", "k">>}
Schemes == {<<"T">>}
Methods == {"", "POST"}
Contexts == {"live", "cancelled"}
Timeouts == {0, 10}
Hooks == {"nil", "trace"}
UrlPaths == {<<"/", "a">>, <<"%", "z">>}
StatusCodes == {200, 404, 500, 599}

\* http.Header restricted to the keys the modelled code touches; Absent is a
\* key with no value.
Absent == <<"<", "a", "b", "s", "e", "n", "t", ">">>
TraceKey == <<"X", "-", "T">>
HeaderKeys == {<< >>, defaultHeaderAuthorizationKey, TraceKey, ContentTypeKey}
EmptyHeader == [k \in HeaderKeys |-> Absent]

\* A map with no key, and m[key] = value.
EmptyMap == [k \in {} |-> << >>]
MapSet(m, key, value) == (key :> value) @@ m

\* What the callers of the parameter store pass in.
SetHeaderKeys == {ContentTypeKey}
SetHeaderValues == {ContentTypeText}
ParamKeys == {<<"i", "d">>, <<"a">>}
ParamValues == {<<"5">>, <<"x", " ", "&">>}
CookieStrings ==
    {<<"a", "=", "1", ";", " ", "b", "=", "2">>,
     <<"k", " ", "=", "v", " ", ";", "n", "o", ";", ";", " ">>,
     <<"t", "=", "x", "=", "y">>}
RawCookies == {[Name |-> <<"r">>, Value |-> <<"w">>]}
BodyStrings == {<<"h", "i">>}
JsonStrings ==
    {<<"{", "\"", "a", "\"", ":", "1", "}">>, <<"[", "1", "]">>,
     <<" ", "{", "}", "\n">>, <<"h", "e", "l", "l", "o">>, <<"{", "]">>}

\* Base URLs: a host with a path, with an empty port, with a port and a
\* trailing "/", and a bracketed IPv6 literal with a port.
BaseURLs ==
    {<<"h", "t", "t", "p", ":", "/", "/", "e", ".", "c", "/", "a", "p", "i">>,
     <<"h", "t", "t", "p", ":", "/", "/", "e", ".", "c", ":">>,
     <<"h", "t", "t", "p", ":", "/", "/", "e", ".", "c", ":", "8", "0", "/">>,
     <<"h", "t", "t", "p", ":", "/", "/", "[", ":", ":", "1", "]", ":", "8",
       "0">>}
\* Targets of Execute: the paths of UrlPaths, a path with two leading "/",
\* and an absolute URL.
AbsoluteURL ==
    <<"h", "t", "t", "p", "s", ":", "/", "/", "e", ".", "c", "/", "d">>
UrlTargets == UrlPaths \cup {<<"/", "/", "v", "1">>, AbsoluteURL}

VARIABLES
    \* Client
    cRetryMax, cUserInfo, cBasicAuthToken, cAuthScheme, cHeaderAuthorizationKey,
    cMethod, cBaseURL, cTimeout, cHook, httpTimeout,
    cHeader, cCookies, cQueryParams, cFormParams, cBody,
    \* Request (the descriptor made by the latest Client.R())
    rExists, rMethod, rHeader, rCtx, rGetBody, rUrlPoint, rRequest,
    rBody, rCookies, rQueryParams, rFormParams, rShares,
    \* Execute in progress
    pcE, i, retResp, retErr,
    \* history
    log, wire, asmOutcome, hookCalls, lastRetryArg, setterCalls, executes,
    \* Response envelope, its stream, and the threads using it
    hasResponse, body, respErr, bodyMutex,
    sKind, sData, sClosed, sFailsLeft,
    pc, op, tmp, tmpErr, ret, retLog, callsLeft, file,
    readLog, streamCloses, B0,
    \* The verb helpers called by the threads on the Client
    hMethod, hDispatched, hConfigured

\* The defaults a descriptor is created from, and the descriptor's own copies.
cStore == <<cHeader, cCookies, cQueryParams, cFormParams, cBody>>
rStore == <<rBody, rCookies, rQueryParams, rFormParams, rShares>>
clientVars == <<cRetryMax, cUserInfo, cBasicAuthToken, cAuthScheme,
                cHeaderAuthorizationKey, cMethod, cBaseURL, cTimeout, cHook,
                httpTimeout, cStore>>
reqVars == <<rExists, rMethod, rHeader, rCtx, rGetBody, rUrlPoint, rRequest,
             rStore>>
execVars == <<pcE, i, retResp, retErr>>
histVars == <<log, wire, asmOutcome, hookCalls, lastRetryArg, setterCalls,
              executes>>
respVars == <<hasResponse, body, respErr, bodyMutex, sKind, sData, sClosed,
              sFailsLeft, pc, op, tmp, tmpErr, ret, retLog, callsLeft, file,
              readLog, streamCloses, B0>>
helperVars == <<hMethod, hDispatched, hConfigured>>
vars == <<clientVars, reqVars, execVars, histVars, respVars, helperVars>>

\* ------------------------------------------------------------ string helpers
IsSpace(c) == c \in {" ", "\t", "\n", "\r"}

RECURSIVE TrimLeft(_)
TrimLeft(s) ==
    IF s # << >> /\ IsSpace(Head(s)) THEN TrimLeft(Tail(s)) ELSE s

RECURSIVE TrimRight(_)
TrimRight(s) ==
    IF s # << >> /\ IsSpace(s[Len(s)])
    THEN TrimRight(SubSeq(s, 1, Len(s) - 1))
    ELSE s

TrimSpace(s) == TrimRight(TrimLeft(s))

IsStringEmpty(str) == Len(TrimSpace(str)) = 0

TrimPrefix(s, p) ==
    IF Len(s) >= Len(p) /\ SubSeq(s, 1, Len(p)) = p
    THEN SubSeq(s, Len(p) + 1, Len(s))
    ELSE s

HexDigits == {"0", "1", "2", "3", "4", "5", "6", "7", "8", "9",
              "a", "b", "c", "d", "e", "f", "A", "B", "C", "D", "E", "F"}

\* url.Parse rejects a '%' that is not followed by two hex digits; the other
\* ways it fails do not arise for the paths in UrlPaths.
UrlParses(s) ==
    \A k \in 1 .. Len(s) :
        s[k] = "%" => /\ k + 2 <= Len(s)
                      /\ s[k + 1] \in HexDigits
                      /\ s[k + 2] \in HexDigits

\* "Basic " + base64(username ":" password) as http.Request.SetBasicAuth
\* writes it; base64 is kept as an opaque injective wrapping.
BasicAuthValue(u) ==
    <<"B", "a", "s", "i", "c", " ", "b64(">> \o u.Username \o <<":">>
        \o u.Password \o <<")">>

\* ------------------------------------------------------- bytes of a string
\* The printable ASCII characters in code order: Ascii[k] has code k + 31
\* (the backquote, code 96, is written "<96>").
Ascii ==
    <<" ", "!", "\"", "#", "$", "%", "&", "'", "(", ")", "*", "+", ",", "-",
      ".", "/", "0", "1", "2", "3", "4", "5", "6", "7", "8", "9", ":", ";",
      "<", "=", ">", "?", "@", "A", "B", "C", "D", "E", "F", "G", "H", "I",
      "J", "K", "L", "M", "N", "O", "P", "Q", "R", "S", "T", "U", "V", "W",
      "X", "Y", "Z", "[", "\\", "]", "^", "_", "<96>", "a", "b", "c", "d", "e",
      "f", "g", "h", "i", "j", "k", "l", "m", "n", "o", "p", "q", "r", "s",
      "t", "u", "v", "w", "x", "y", "z", "{", "|", "}", "~">>

CharCode(c) == 31 + (CHOOSE k \in 1 .. Len(Ascii) : Ascii[k] = c)
IsDigit(c) == c \in {"0", "1", "2", "3", "4", "5", "6", "7", "8", "9"}
UpperLetters == {Ascii[k - 31] : k \in 65 .. 90}
LowerLetters == {Ascii[k - 31] : k \in 97 .. 122}
IsLetter(c) == c \in UpperLetters \/ c \in LowerLetters

\* strings.ToLower on ASCII
ToLowerChar(c) ==
    IF c \in UpperLetters THEN Ascii[CharCode(c) + 32 - 31] ELSE c
ToLower(s) == [k \in 1 .. Len(s) |-> ToLowerChar(s[k])]

\* bytes.Compare(a, b) < 0
RECURSIVE LexLess(_, _)
LexLess(a, b) ==
    IF b = << >> THEN FALSE
    ELSE IF a = << >> THEN TRUE
    ELSE IF Head(a) = Head(b) THEN LexLess(Tail(a), Tail(b))
    ELSE CharCode(Head(a)) < CharCode(Head(b))

HasPrefix(s, p) == Len(s) >= Len(p) /\ SubSeq(s, 1, Len(p)) = p
HasSuffix(s, p) ==
    Len(s) >= Len(p) /\ SubSeq(s, Len(s) - Len(p) + 1, Len(s)) = p
TrimSuffix(s, p) ==
    IF HasSuffix(s, p) THEN SubSeq(s, 1, Len(s) - Len(p)) ELSE s

\* strings.Index / strings.LastIndex for a one-byte separator, counted from 1;
\* 0 when the separator does not occur.
Positions(s, c) == {k \in 1 .. Len(s) : s[k] = c}
Index(s, c) ==
    IF Positions(s, c) = {} THEN 0
    ELSE CHOOSE k \in Positions(s, c) : \A j \in Positions(s, c) : k <= j
LastIndex(s, c) ==
    IF Positions(s, c) = {} THEN 0
    ELSE CHOOSE k \in Positions(s, c) : \A j \in Positions(s, c) : k >= j

\* strings.Cut
Cut(s, c) ==
    LET k == Index(s, c)
    IN  IF k = 0
        THEN [before |-> s, after |-> << >>, found |-> FALSE]
        ELSE [before |-> SubSeq(s, 1, k - 1),
              after |-> SubSeq(s, k + 1, Len(s)), found |-> TRUE]

\* strings.Split: the pieces between the separators, the m-th piece running
\* from the (m-1)-th separator to the m-th.
Split(s, c) ==
    LET n == Cardinality(Positions(s, c))
        SepAt(m) ==
            IF m = 0 THEN 0
            ELSE IF m = n + 1 THEN Len(s) + 1
            ELSE CHOOSE k \in Positions(s, c) :
                    Cardinality({j \in Positions(s, c) : j < k}) = m - 1
    IN  [m \in 1 .. n + 1 |-> SubSeq(s, SepAt(m - 1) + 1, SepAt(m) - 1)]

\* strings.SplitN(s, sep, 2)
SplitN2(s, c) ==
    LET cut == Cut(s, c)
    IN  IF cut.found THEN <<cut.before, cut.after>> ELSE <<s>>

\* ------------------------------------------------------------------ net/url
HexUpper == <<"0", "1", "2", "3", "4", "5", "6", "7", "8", "9",
              "A", "B", "C", "D", "E", "F">>
PercentEncode(c) ==
    <<"%", HexUpper[(CharCode(c) \div 16) + 1], HexUpper[(CharCode(c) % 16) + 1]>>

Unreserved(c) == IsLetter(c) \/ IsDigit(c) \/ c \in {"-", "_", ".", "~"}

\* url.QueryEscape
RECURSIVE QueryEscape(_)
QueryEscape(s) ==
    IF s = << >> THEN << >>
    ELSE (IF Unreserved(Head(s)) THEN <<Head(s)>>
          ELSE IF Head(s) = " " THEN <<"+">>
          ELSE PercentEncode(Head(s)))
         \o QueryEscape(Tail(s))

\* The keys of a map in the order url.Values.Encode writes them (sorted).
RECURSIVE SortedKeys(_)
SortedKeys(keys) ==
    IF keys = {} THEN << >>
    ELSE LET least == CHOOSE k \in keys :
                          \A other \in keys \ {k} : LexLess(k, other)
         IN  <<least>> \o SortedKeys(keys \ {least})

RECURSIVE EncodePairs(_, _)
EncodePairs(v, keys) ==
    IF keys = << >> THEN << >>
    ELSE QueryEscape(Head(keys)) \o <<"=">> \o QueryEscape(v[Head(keys)])
         \o (IF Tail(keys) = << >> THEN << >> ELSE <<"&">>)
         \o EncodePairs(v, Tail(keys))

\* url.Values.Encode, for values with one string per key
Encode(v) == EncodePairs(v, SortedKeys(DOMAIN v))

\* getScheme: [scheme, rest, err]
RECURSIVE getSchemeAt(_, _)
getSchemeAt(rawURL, k) ==
    LET none == [scheme |-> << >>, rest |-> rawURL, err |-> NoErr]
    IN  IF k > Len(rawURL) THEN none
        ELSE IF IsLetter(rawURL[k]) THEN getSchemeAt(rawURL, k + 1)
        ELSE IF IsDigit(rawURL[k]) \/ rawURL[k] \in {"+", "-", "."}
             THEN IF k = 1 THEN none ELSE getSchemeAt(rawURL, k + 1)
        ELSE IF rawURL[k] = ":"
             THEN IF k = 1
                  THEN [scheme |-> << >>, rest |-> << >>,
                        err |-> "missing protocol scheme"]
                  ELSE [scheme |-> SubSeq(rawURL, 1, k - 1),
                        rest |-> SubSeq(rawURL, k + 1, Len(rawURL)),
                        err |-> NoErr]
        ELSE none
getScheme(rawURL) == getSchemeAt(rawURL, 1)

validOptionalPort(port) ==
    \/ port = << >>
    \/ /\ port[1] = ":"
       /\ \A k \in 2 .. Len(port) : IsDigit(port[k])

\* parseHost: the port after a bracketed literal or after the last colon must
\* be digits; the escapes of the host must be valid.
parseHost(host) ==
    LET close == LastIndex(host, "]")
        colon == LastIndex(host, ":")
    IN  IF HasPrefix(host, <<"[">>)
        THEN IF close = 0 THEN "missing ']' in host"
             ELSE IF ~validOptionalPort(SubSeq(host, close + 1, Len(host)))
             THEN "invalid port after host"
             ELSE IF ~UrlParses(host) THEN "invalid URL escape"
             ELSE NoErr
        ELSE IF colon # 0 /\ ~validOptionalPort(SubSeq(host, colon, Len(host)))
        THEN "invalid port after host"
        ELSE IF ~UrlParses(host) THEN "invalid URL escape"
        ELSE NoErr

NoURL == [Scheme |-> << >>, Opaque |-> << >>, Host |-> << >>, Path |-> << >>,
          RawQuery |-> << >>, Fragment |-> << >>]

\* url.Parse: [err, url].  The fragment is cut off, then the scheme, then the
\* query; a rest that starts with "//" has an authority up to the next "/".
\* Userinfo ("user@") and IPv6 zones are not modelled, and a path keeps the
\* spelling it was given in.
Parse(rawURL) ==
    LET frag == Cut(rawURL, "#")
        sc == getScheme(frag.before)
        query == Cut(sc.rest, "?")
        rest == query.before
        segment == Cut(rest, "/").before
        hasAuthority ==
            /\ HasPrefix(rest, <<"/", "/">>)
            /\ sc.scheme # << >> \/ ~HasPrefix(rest, <<"/", "/", "/">>)
        afterSlashes == SubSeq(rest, 3, Len(rest))
        slash == Index(afterSlashes, "/")
        authority == IF slash = 0 THEN afterSlashes
                     ELSE SubSeq(afterSlashes, 1, slash - 1)
        path == IF ~hasAuthority THEN rest
                ELSE IF slash = 0 THEN << >>
                ELSE SubSeq(afterSlashes, slash, Len(afterSlashes))
        fail(e) == [err |-> e, url |-> NoURL]
    IN  IF sc.err # NoErr THEN fail(sc.err)
        ELSE IF ~HasPrefix(rest, <<"/">>) /\ sc.scheme # << >>
        THEN [err |-> NoErr,
              url |-> [NoURL EXCEPT !.Scheme = ToLower(sc.scheme),
                                    !.Opaque = rest,
                                    !.RawQuery = query.after,
                                    !.Fragment = frag.after]]
        ELSE IF ~HasPrefix(rest, <<"/">>) /\ Index(segment, ":") # 0
        THEN fail("first path segment in URL cannot contain colon")
        ELSE IF hasAuthority /\ parseHost(authority) # NoErr
        THEN fail(parseHost(authority))
        ELSE IF ~UrlParses(path) THEN fail("invalid URL escape")
        ELSE [err |-> NoErr,
              url |-> [Scheme |-> ToLower(sc.scheme), Opaque |-> << >>,
                       Host |-> IF hasAuthority THEN authority ELSE << >>,
                       Path |-> path, RawQuery |-> query.after,
                       Fragment |-> frag.after]]

\* URL.String
URLString(u) ==
    (IF u.Scheme # << >> THEN u.Scheme \o <<":">> ELSE << >>)
    \o (IF u.Opaque # << >> THEN u.Opaque
        ELSE (IF (u.Scheme # << >> \/ u.Host # << >>)
                    /\ (u.Host # << >> \/ u.Path # << >>)
              THEN <<"/", "/">> ELSE << >>)
             \o u.Host
             \o (IF u.Path # << >> /\ u.Path[1] # "/" /\ u.Host # << >>
                 THEN <<"/">> ELSE << >>)
             \o u.Path)
    \o (IF u.RawQuery # << >> THEN <<"?">> \o u.RawQuery ELSE << >>)
    \o (IF u.Fragment # << >> THEN <<"#">> \o u.Fragment ELSE << >>)

\* removeEmptyPort: strings.Split on every ':', then a test of the second
\* piece only.
removeEmptyPort(host) ==
    LET hostnameAndPort == Split(host, ":")
    IN  IF Len(hostnameAndPort) > 1 /\ hostnameAndPort[2] = << >>
        THEN hostnameAndPort[1]
        ELSE host

\* parseCookies: the cookies of one raw "k=v; k2=v2" string.
RECURSIVE parseCookiePieces(_)
parseCookiePieces(pieces) ==
    IF pieces = << >> THEN << >>
    ELSE LET cookie == TrimSpace(Head(pieces))
             cookieArr == SplitN2(cookie, "=")
         IN  (IF cookie # << >> /\ Len(cookieArr) = 2
              THEN <<[Name |-> cookieArr[1], Value |-> cookieArr[2]]>>
              ELSE << >>)
             \o parseCookiePieces(Tail(pieces))
parseCookies(cookies) == parseCookiePieces(Split(cookies, ";"))

\* isJSON
isJSON(str) ==
    LET t == TrimSpace(str)
    IN  \/ HasPrefix(t, <<"{">>) /\ HasSuffix(t, <<"}">>)
        \/ HasPrefix(t, <<"[">>) /\ HasSuffix(t, <<"]">>)

\* ------------------------------------------------------------------ Client
NewClientInit ==
    /\ cRetryMax = retryMax
    /\ cUserInfo = << >>
    /\ cBasicAuthToken = defaultHeaderAuthorizationKey
    /\ cAuthScheme = defaultAuthScheme
    /\ cHeaderAuthorizationKey = << >>
    /\ cMethod = ""
    /\ cBaseURL = << >>
    /\ cTimeout = DefaultTimeout
    /\ cHook = "nil"
    /\ httpTimeout = DefaultTimeout
    /\ cHeader = EmptyHeader
    /\ cCookies = << >>
    /\ cQueryParams = EmptyMap
    /\ cFormParams = EmptyMap
    /\ cBody = << >>

NoRequestInit ==
    /\ rExists = FALSE
    /\ rMethod = ""
    /\ rHeader = EmptyHeader
    /\ rCtx = "nil"
    /\ rGetBody = FALSE
    /\ rUrlPoint = << >>
    /\ rRequest = << >>
    /\ rBody = << >>
    /\ rCookies = << >>
    /\ rQueryParams = EmptyMap
    /\ rFormParams = EmptyMap
    /\ rShares = {}

ExecIdleInit ==
    /\ pcE = "idle"
    /\ i = 0
    /\ retResp = << >>
    /\ retErr = NoErr
    /\ log = << >>
    /\ wire = << >>
    /\ asmOutcome = "none"
    /\ hookCalls = 0
    /\ lastRetryArg = << >>
    /\ setterCalls = 0
    /\ executes = 0

\* A setter is called between requests, by the goroutine that owns the client.
\* pcE is "returned" from the return of Execute until the caller's next call.
Idle == pcE \in {"idle", "returned"}
CanConfigure == Idle /\ setterCalls < MaxSetterCalls

SetRetryMaxValue(cur, n) == IF n < 0 THEN cur ELSE n

SetRetryMax(n) ==
    /\ CanConfigure
    /\ cRetryMax' = SetRetryMaxValue(cRetryMax, n)
    /\ lastRetryArg' = <<n>>
    /\ setterCalls' = setterCalls + 1
    /\ UNCHANGED <<cUserInfo, cBasicAuthToken, cAuthScheme,
                   cHeaderAuthorizationKey, cMethod, cBaseURL, cTimeout, cHook,
                   httpTimeout, cStore>>
    /\ pcE' = "idle"
    /\ UNCHANGED <<i, retResp, retErr>>
    /\ UNCHANGED <<reqVars, respVars, helperVars>>
    /\ UNCHANGED <<log, wire, asmOutcome, hookCalls, executes>>

SetBasicAuth(u) ==
    /\ CanConfigure
    /\ cUserInfo' = <<u>>
    /\ setterCalls' = setterCalls + 1
    /\ UNCHANGED <<cRetryMax, cBasicAuthToken, cAuthScheme,
                   cHeaderAuthorizationKey, cMethod, cBaseURL, cTimeout, cHook,
                   httpTimeout, cStore>>
    /\ pcE' = "idle"
    /\ UNCHANGED <<i, retResp, retErr>>
    /\ UNCHANGED <<reqVars, respVars, helperVars>>
    /\ UNCHANGED <<log, wire, asmOutcome, hookCalls, lastRetryArg, executes>>

SetBasicAuthToken(token) ==
    /\ CanConfigure
    /\ cBasicAuthToken' = token
    /\ setterCalls' = setterCalls + 1
    /\ UNCHANGED <<cRetryMax, cUserInfo, cAuthScheme,
                   cHeaderAuthorizationKey, cMethod, cBaseURL, cTimeout, cHook,
                   httpTimeout, cStore>>
    /\ pcE' = "idle"
    /\ UNCHANGED <<i, retResp, retErr>>
    /\ UNCHANGED <<reqVars, respVars, helperVars>>
    /\ UNCHANGED <<log, wire, asmOutcome, hookCalls, lastRetryArg, executes>>

SetAuthScheme(scheme) ==
    /\ CanConfigure
    /\ cAuthScheme' = scheme
    /\ setterCalls' = setterCalls + 1
    /\ UNCHANGED <<cRetryMax, cUserInfo, cBasicAuthToken,
                   cHeaderAuthorizationKey, cMethod, cBaseURL, cTimeout, cHook,
                   httpTimeout, cStore>>
    /\ pcE' = "idle"
    /\ UNCHANGED <<i, retResp, retErr>>
    /\ UNCHANGED <<reqVars, respVars, helperVars>>
    /\ UNCHANGED <<log, wire, asmOutcome, hookCalls, lastRetryArg, executes>>

SetHandleRequestResultFunc(f) ==
    /\ CanConfigure
    /\ cHook' = IF f # "nil" THEN f ELSE cHook
    /\ setterCalls' = setterCalls + 1
    /\ UNCHANGED <<cRetryMax, cUserInfo, cBasicAuthToken, cAuthScheme,
                   cHeaderAuthorizationKey, cMethod, cBaseURL, cTimeout,
                   httpTimeout, cStore>>
    /\ pcE' = "idle"
    /\ UNCHANGED <<i, retResp, retErr>>
    /\ UNCHANGED <<reqVars, respVars, helperVars>>
    /\ UNCHANGED <<log, wire, asmOutcome, hookCalls, lastRetryArg, executes>>

SetTimeout(timeout) ==
    /\ CanConfigure
    /\ cTimeout' = timeout
    /\ setterCalls' = setterCalls + 1
    /\ UNCHANGED <<cRetryMax, cUserInfo, cBasicAuthToken, cAuthScheme,
                   cHeaderAuthorizationKey, cMethod, cBaseURL, cHook,
                   httpTimeout, cStore>>
    /\ pcE' = "idle"
    /\ UNCHANGED <<i, retResp, retErr>>
    /\ UNCHANGED <<reqVars, respVars, helperVars>>
    /\ UNCHANGED <<log, wire, asmOutcome, hookCalls, lastRetryArg, executes>>

\* SetBaseURL: one trailing "/" is cut off.
SetBaseURL(baseURL) ==
    /\ CanConfigure
    /\ cBaseURL' = TrimSuffix(baseURL, <<"/">>)
    /\ setterCalls' = setterCalls + 1
    /\ UNCHANGED <<cRetryMax, cUserInfo, cBasicAuthToken, cAuthScheme,
                   cHeaderAuthorizationKey, cMethod, cTimeout, cHook,
                   httpTimeout, cStore>>
    /\ pcE' = "idle"
    /\ UNCHANGED <<i, retResp, retErr>>
    /\ UNCHANGED <<reqVars, respVars, helperVars>>
    /\ UNCHANGED <<log, wire, asmOutcome, hookCalls, lastRetryArg, executes>>

\* A map is a reference: a write through one holder of a map object is seen
\* by every holder.  rShares names the descriptor's fields that hold the
\* client's map object itself; Shared(field, new, own) is what the other
\* holder's field reads after a write of new.
Shared(field, new, own) == IF field \in rShares THEN new ELSE own

\* The variables a setter of the parameter store leaves alone.
StoreFrame ==
    /\ setterCalls' = setterCalls + 1
    /\ pcE' = "idle"
    /\ UNCHANGED <<cRetryMax, cUserInfo, cBasicAuthToken, cAuthScheme,
                   cHeaderAuthorizationKey, cMethod, cBaseURL, cTimeout, cHook,
                   httpTimeout>>
    /\ UNCHANGED <<rExists, rMethod, rCtx, rGetBody, rUrlPoint, rRequest,
                   rShares>>
    /\ UNCHANGED <<i, retResp, retErr>>
    /\ UNCHANGED <<log, wire, asmOutcome, hookCalls, lastRetryArg, executes>>
    /\ UNCHANGED <<respVars, helperVars>>

ClientSetHeader(key, value) ==
    /\ CanConfigure
    /\ cHeader' = [cHeader EXCEPT ![key] = value]
    /\ rHeader' = Shared("Header", cHeader', rHeader)
    /\ UNCHANGED <<cCookies, cQueryParams, cFormParams, cBody>>
    /\ UNCHANGED <<rBody, rCookies, rQueryParams, rFormParams>>
    /\ StoreFrame

ClientSetBody(b) ==
    /\ CanConfigure
    /\ cBody' = b
    /\ UNCHANGED <<cHeader, cCookies, cQueryParams, cFormParams>>
    /\ UNCHANGED <<rHeader, rBody, rCookies, rQueryParams, rFormParams>>
    /\ StoreFrame

ClientSetCookie(cookies) ==
    /\ CanConfigure
    /\ cCookies' = cCookies \o parseCookies(cookies)
    /\ UNCHANGED <<cHeader, cQueryParams, cFormParams, cBody>>
    /\ UNCHANGED <<rHeader, rBody, rCookies, rQueryParams, rFormParams>>
    /\ StoreFrame

ClientSetCookieRaw(cookie) ==
    /\ CanConfigure
    /\ cCookies' = Append(cCookies, cookie)
    /\ UNCHANGED <<cHeader, cQueryParams, cFormParams, cBody>>
    /\ UNCHANGED <<rHeader, rBody, rCookies, rQueryParams, rFormParams>>
    /\ StoreFrame

ClearCookies ==
    /\ CanConfigure
    /\ cCookies' = << >>
    /\ UNCHANGED <<cHeader, cQueryParams, cFormParams, cBody>>
    /\ UNCHANGED <<rHeader, rBody, rCookies, rQueryParams, rFormParams>>
    /\ StoreFrame

ClientSetQueryParam(key, value) ==
    /\ CanConfigure
    /\ cQueryParams' = MapSet(cQueryParams, key, value)
    /\ rQueryParams' = Shared("queryParams", cQueryParams', rQueryParams)
    /\ UNCHANGED <<cHeader, cCookies, cFormParams, cBody>>
    /\ UNCHANGED <<rHeader, rBody, rCookies, rFormParams>>
    /\ StoreFrame

ClientSetFormParam(key, value) ==
    /\ CanConfigure
    /\ cFormParams' = MapSet(cFormParams, key, value)
    /\ rFormParams' = Shared("formParams", cFormParams', rFormParams)
    /\ UNCHANGED <<cHeader, cCookies, cQueryParams, cBody>>
    /\ UNCHANGED <<rHeader, rBody, rCookies, rQueryParams>>
    /\ StoreFrame

\* Header.Clone, copyMap, copyValues: a new map object holding the contents
\* of the original.
Clone(h) == [contents |-> h, shared |-> FALSE]
copyMapAliased(original) == [contents |-> original, shared |-> TRUE]
copyMap(original) == [contents |-> original, shared |-> FALSE]
copyValues(original) == [contents |-> original, shared |-> FALSE]

\* Client.R: writes the default method into the client when none is set, then
\* builds the descriptor from the client's defaults: the body string, copies
\* of the three maps, and a new slice with the client's cookies.
R ==
    /\ Idle
    /\ cMethod' = IF cMethod = "" THEN MethodGet ELSE cMethod
    /\ rExists' = TRUE
    /\ rMethod' = cMethod'
    /\ rBody' = cBody
    /\ rHeader' = Clone(cHeader).contents
    /\ rQueryParams' = copyMap(cQueryParams).contents
    /\ rFormParams' = copyValues(cFormParams).contents
    /\ rCookies' = cCookies
    /\ rShares' = {f \in {"Header"} : Clone(cHeader).shared}
                    \cup {f \in {"queryParams"} : copyMap(cQueryParams).shared}
                    \cup {f \in {"formParams"} : copyValues(cFormParams).shared}
    /\ rCtx' = "nil"
    /\ rGetBody' = FALSE
    /\ rUrlPoint' = << >>
    /\ rRequest' = << >>
    /\ UNCHANGED <<cRetryMax, cUserInfo, cBasicAuthToken, cAuthScheme,
                   cHeaderAuthorizationKey, cBaseURL, cTimeout, cHook,
                   httpTimeout, cStore>>
    /\ pcE' = "idle"
    /\ UNCHANGED <<i, retResp, retErr>>
    /\ UNCHANGED <<histVars, respVars, helperVars>>

\* The Request setters.
RequestSetHeader(key, value) ==
    /\ CanConfigure
    /\ rExists
    /\ rHeader' = [rHeader EXCEPT ![key] = value]
    /\ cHeader' = Shared("Header", rHeader', cHeader)
    /\ UNCHANGED <<cCookies, cQueryParams, cFormParams, cBody>>
    /\ UNCHANGED <<rBody, rCookies, rQueryParams, rFormParams>>
    /\ StoreFrame

RequestSetCookie(cookies) ==
    /\ CanConfigure
    /\ rExists
    /\ rCookies' = rCookies \o parseCookies(cookies)
    /\ UNCHANGED <<cHeader, cCookies, cQueryParams, cFormParams, cBody>>
    /\ UNCHANGED <<rHeader, rBody, rQueryParams, rFormParams>>
    /\ StoreFrame

RequestSetCookieRaw(cookie) ==
    /\ CanConfigure
    /\ rExists
    /\ rCookies' = Append(rCookies, cookie)
    /\ UNCHANGED <<cHeader, cCookies, cQueryParams, cFormParams, cBody>>
    /\ UNCHANGED <<rHeader, rBody, rQueryParams, rFormParams>>
    /\ StoreFrame

RequestSetFormParam(key, value) ==
    /\ CanConfigure
    /\ rExists
    /\ rFormParams' = MapSet(rFormParams, key, value)
    /\ cFormParams' = Shared("formParams", rFormParams', cFormParams)
    /\ UNCHANGED <<cHeader, cCookies, cQueryParams, cBody>>
    /\ UNCHANGED <<rHeader, rBody, rCookies, rQueryParams>>
    /\ StoreFrame

RequestSetQueryParam(key, value) ==
    /\ CanConfigure
    /\ rExists
    /\ rQueryParams' = MapSet(rQueryParams, key, value)
    /\ cQueryParams' = Shared("queryParams", rQueryParams', cQueryParams)
    /\ UNCHANGED <<cHeader, cCookies, cFormParams, cBody>>
    /\ UNCHANGED <<rHeader, rBody, rCookies, rFormParams>>
    /\ StoreFrame

RequestSetBody(b) ==
    /\ CanConfigure
    /\ rExists
    /\ rBody' = b
    /\ UNCHANGED <<cHeader, cCookies, cQueryParams, cFormParams, cBody>>
    /\ UNCHANGED <<rHeader, rCookies, rQueryParams, rFormParams>>
    /\ StoreFrame

\* Request.SetBodyJSON with a string: the body is replaced when isJSON
\* accepts the string (else the string is logged); Content-Type is set in
\* both cases.
SetBodyJSONAcceptsAll(str) == TRUE
SetBodyJSONAccepts(str) == isJSON(str)

RequestSetBodyJSON(data) ==
    /\ CanConfigure
    /\ rExists
    /\ rBody' = IF SetBodyJSONAccepts(data) THEN data ELSE rBody
    /\ rHeader' = [rHeader EXCEPT ![ContentTypeKey] = ContentTypeJson]
    /\ cHeader' = Shared("Header", rHeader', cHeader)
    /\ UNCHANGED <<cCookies, cQueryParams, cFormParams, cBody>>
    /\ UNCHANGED <<rCookies, rQueryParams, rFormParams>>
    /\ StoreFrame

RequestSetMethod(method) ==
    /\ CanConfigure
    /\ rExists
    /\ rMethod' = method
    /\ setterCalls' = setterCalls + 1
    /\ UNCHANGED <<rExists, rHeader, rCtx, rGetBody, rUrlPoint, rRequest,
                   rStore>>
    /\ pcE' = "idle"
    /\ UNCHANGED <<i, retResp, retErr>>
    /\ UNCHANGED <<clientVars, respVars, helperVars>>
    /\ UNCHANGED <<log, wire, asmOutcome, hookCalls, lastRetryArg, executes>>

SetContext(ctx) ==
    /\ CanConfigure
    /\ rExists
    /\ rCtx' = ctx
    /\ setterCalls' = setterCalls + 1
    /\ UNCHANGED <<rExists, rMethod, rHeader, rGetBody, rUrlPoint, rRequest,
                   rStore>>
    /\ pcE' = "idle"
    /\ UNCHANGED <<i, retResp, retErr>>
    /\ UNCHANGED <<clientVars, respVars, helperVars>>
    /\ UNCHANGED <<log, wire, asmOutcome, hookCalls, lastRetryArg, executes>>

\* ----------------------------------------------------------------- Execute
LogEntry(ev, status) == [ev |-> ev, status |-> status]

\* prepareRequestURL: the target without a leading "/", then "?" and the
\* encoded query parameters when there are any.
prepareRequestURL(urlPoint) ==
    TrimPrefix(urlPoint, <<"/">>)
        \o (IF DOMAIN rQueryParams # {}
            THEN <<"?">> \o Encode(rQueryParams)
            ELSE << >>)

\* prepareRequestBody: the encoded form parameters when there are any, else
\* the body string.
prepareRequestBody ==
    IF DOMAIN rFormParams # {} THEN Encode(rFormParams) ELSE rBody

\* The GetBody closure newRequest installs: every call of it gives a new
\* reader over the descriptor's body string as it is at the time of the call.
InstalledGetBody == rBody

MethodNotSetNever(method) == FALSE
MethodNotSet(method) == method = ""

\* Request.newRequest, as the values it leaves behind: how it ends ("ok", an
\* "error" return, or a "panic"), the request it built, and the descriptor
\* fields it has written by then.  The request's Body is the bytes its
\* stream still has to give; Cookies are the cookies passed to AddCookie, in
\* order.  The GetBody closure newRequest installs returns the descriptor's
\* body string.
newRequest(urlPoint) ==
    LET parsed == Parse(cBaseURL \o <<"/">> \o prepareRequestURL(urlPoint))
        u == [parsed.url EXCEPT !.Host = removeEmptyPort(@)]
        reqBody == IF rGetBody THEN InstalledGetBody ELSE prepareRequestBody
        contentLength == IF rGetBody THEN 0 ELSE Len(prepareRequestBody)
        ctx == IF rCtx = "nil" THEN "background" ELSE rCtx
        req == [Method |-> rMethod, Header |-> rHeader, ctx |-> ctx,
                URL |-> u, Host |-> u.Host, ContentLength |-> contentLength,
                Body |-> reqBody, Cookies |-> rCookies]
        bearer == cAuthScheme \o <<" ">> \o cBasicAuthToken
    IN  IF parsed.err # NoErr
        THEN [outcome |-> "error", err |-> parsed.err, req |-> << >>,
              getBody |-> rGetBody, ctx |-> rCtx, header |-> rHeader,
              oldRequest |-> rRequest]
        ELSE IF MethodNotSet(rMethod)
        THEN [outcome |-> "error", err |-> "HTTP method is not set",
              req |-> << >>, getBody |-> TRUE, ctx |-> rCtx,
              header |-> rHeader, oldRequest |-> rRequest]
        ELSE IF cUserInfo # << >>
        THEN IF rRequest = << >>
             THEN [outcome |-> "panic", err |-> "nil pointer dereference",
                   req |-> << >>, getBody |-> TRUE, ctx |-> ctx,
                   header |-> rHeader, oldRequest |-> rRequest]
             ELSE [outcome |-> "ok", err |-> NoErr, req |-> <<req>>,
                   getBody |-> TRUE, ctx |-> ctx, header |-> rHeader,
                   oldRequest |->
                       <<[rRequest[1] EXCEPT
                            !.Header[defaultHeaderAuthorizationKey] =
                                BasicAuthValue(cUserInfo[1])]>>]
        ELSE [outcome |-> "ok", err |-> NoErr, req |-> <<req>>,
              getBody |-> TRUE, ctx |-> ctx,
              header |-> IF ~IsStringEmpty(cBasicAuthToken)
                         THEN [rHeader EXCEPT
                                 ![cHeaderAuthorizationKey] = bearer]
                         ELSE rHeader,
              oldRequest |-> rRequest]

\* The request-transform hook of the model: it adds a tracing header.
ApplyHook(f, req) ==
    IF f = "trace"
    THEN [req EXCEPT !.Header[TraceKey] = <<"1">>]
    ELSE req

HookInstalledNever(f) == FALSE
HookInstalled(f) == f # "nil"

\* Execute up to the retry loop: assembly, the hook, r.Request = request.
ExecuteBegin(urlPath) ==
    /\ Idle
    /\ rExists
    /\ executes < MaxExecutes
    /\ \E up \in {TrimPrefix(urlPath, <<"/">>)} : \E nr \in {newRequest(up)} :
           /\ rUrlPoint' = up
           /\ rGetBody' = nr.getBody
           /\ rCtx' = nr.ctx
           /\ rHeader' = nr.header
           /\ asmOutcome' = nr.outcome
           /\ IF nr.outcome = "ok"
              THEN /\ rRequest' = <<IF HookInstalled(cHook)
                                     THEN ApplyHook(cHook, nr.req[1])
                                     ELSE nr.req[1]>>
                   /\ hookCalls' = IF HookInstalled(cHook) THEN 1 ELSE 0
                   /\ pcE' = "loop"
                   /\ retErr' = NoErr
              ELSE /\ rRequest' = nr.oldRequest
                   /\ hookCalls' = 0
                   /\ pcE' = IF nr.outcome = "panic"
                             THEN "panicked" ELSE "returned"
                   /\ retErr' = nr.err
    /\ i' = 0
    /\ retResp' = << >>
    /\ log' = << >>
    /\ wire' = << >>
    /\ executes' = executes + 1
    /\ UNCHANGED <<rExists, rMethod, rStore, lastRetryArg, setterCalls>>
    /\ UNCHANGED <<clientVars, respVars, helperVars>>

RetryLoopCondInclusive(k, max) == k <= max
RetryLoopCond(k, max) == k < max

\* What the transport may answer to a dispatched request: an error, or, unless
\* the request's context is already cancelled, a response of any status.
TransportOutcomes(req) ==
    {[err |-> "transport error", status |-> 0]}
        \cup IF req.ctx = "cancelled"
             THEN {}
             ELSE {[err |-> NoErr, status |-> s] : s \in StatusCodes}

\* Request.Do up to the call of the underlying client: the client's timeout
\* is copied into the shared http.Client and the request is dispatched.
DoSend ==
    /\ pcE = "loop"
    /\ RetryLoopCond(i, cRetryMax)
    /\ httpTimeout' = IF cTimeout > 0 THEN cTimeout ELSE httpTimeout
    /\ log' = Append(log, LogEntry("send", 0))
    /\ wire' = rRequest
    /\ pcE' = "inflight"
    /\ UNCHANGED <<cRetryMax, cUserInfo, cBasicAuthToken, cAuthScheme,
                   cHeaderAuthorizationKey, cMethod, cBaseURL, cTimeout, cHook,
                   cStore>>
    /\ UNCHANGED <<i, retResp, retErr>>
    /\ UNCHANGED <<asmOutcome, hookCalls, lastRetryArg, setterCalls, executes>>
    /\ UNCHANGED <<reqVars, respVars, helperVars>>

\* What Request.Do returns for a transport outcome: (nil, err), or the
\* envelope around the transport's response.
Do(outcome) ==
    IF outcome.err # NoErr
    THEN [resp |-> << >>, err |-> outcome.err]
    ELSE [resp |-> <<[Response |-> <<[StatusCode |-> outcome.status]>>]>>,
          err |-> NoErr]

AttemptSucceededBelow500(err, response) ==
    /\ err = NoErr
    /\ response[1].Response # << >>
    /\ response[1].Response[1].StatusCode < 500
AttemptSucceeded(err, response) ==
    /\ err = NoErr
    /\ response[1].Response # << >>

\* The transport answers, having read the request's body stream to its end or
\* not at all; Do returns; Execute returns the envelope or goes on to the
\* next attempt.
DoComplete ==
    /\ pcE = "inflight"
    /\ \E consumed \in BOOLEAN :
          rRequest' = IF consumed
                      THEN <<[rRequest[1] EXCEPT !.Body = << >>]>>
                      ELSE rRequest
    /\ \E outcome \in TransportOutcomes(wire[1]) :
          LET res == Do(outcome)
          IN  /\ log' = Append(log, LogEntry(IF outcome.err # NoErr
                                             THEN "err" ELSE "resp",
                                             outcome.status))
              /\ IF AttemptSucceeded(res.err, res.resp)
                 THEN /\ retResp' = res.resp
                      /\ retErr' = NoErr
                      /\ pcE' = "returned"
                      /\ i' = i
                 ELSE /\ i' = i + 1
                      /\ pcE' = "loop"
                      /\ UNCHANGED <<retResp, retErr>>
    /\ UNCHANGED <<wire, asmOutcome, hookCalls, lastRetryArg, setterCalls,
                   executes>>
    /\ UNCHANGED <<rExists, rMethod, rHeader, rCtx, rGetBody, rUrlPoint,
                   rStore>>
    /\ UNCHANGED <<clientVars, respVars, helperVars>>

\* The retry loop ends without a response.
ExecuteExhausted ==
    /\ pcE = "loop"
    /\ ~RetryLoopCond(i, cRetryMax)
    /\ retResp' = << >>
    /\ retErr' = "failed to execute request"
    /\ pcE' = "returned"
    /\ UNCHANGED i
    /\ UNCHANGED <<clientVars, reqVars, histVars, respVars, helperVars>>

StatusCode(r) == IF r.Response # << >> THEN r.Response[1].StatusCode ELSE 0
IsSuccess(r) == StatusCode(r) >= 200 /\ StatusCode(r) < 300
IsClientError(r) == StatusCode(r) >= 400 /\ StatusCode(r) < 500
IsServerError(r) == StatusCode(r) >= 500 /\ StatusCode(r) < 600

\* ---------------------------------------------------------------- Response
NilBytes == <<-1>>
Threads == 1 .. NumThreads

\* Response bodies of the model: empty, "{}", the GBK bytes of U+4F60 (not
\* valid UTF-8), and the UTF-8 bytes of U+4F60.
Bodies == {<< >>, <<123, 125>>, <<196, 227>>, <<228, 189, 160>>}
StreamKinds == {"std", "nop"}

\* utf8.Valid
RECURSIVE Utf8Valid(_)
Utf8Valid(b) ==
    LET n == Len(b)
        Cont(k) == k <= n /\ b[k] >= 128 /\ b[k] <= 191
        Rest(k) == Utf8Valid(SubSeq(b, k, n))
    IN  IF b = NilBytes \/ n = 0 THEN TRUE
        ELSE IF b[1] < 128 THEN Rest(2)
        ELSE IF b[1] >= 194 /\ b[1] <= 223 THEN Cont(2) /\ Rest(3)
        ELSE IF b[1] = 224
             THEN n >= 2 /\ b[2] >= 160 /\ b[2] <= 191 /\ Cont(3) /\ Rest(4)
        ELSE IF b[1] = 237
             THEN n >= 2 /\ b[2] >= 128 /\ b[2] <= 159 /\ Cont(3) /\ Rest(4)
        ELSE IF b[1] >= 225 /\ b[1] <= 239
             THEN Cont(2) /\ Cont(3) /\ Rest(4)
        ELSE IF b[1] = 240
             THEN n >= 2 /\ b[2] >= 144 /\ b[2] <= 191 /\ Cont(3) /\ Cont(4)
                  /\ Rest(5)
        ELSE IF b[1] = 244
             THEN n >= 2 /\ b[2] >= 128 /\ b[2] <= 143 /\ Cont(3) /\ Cont(4)
                  /\ Rest(5)
        ELSE IF b[1] >= 241 /\ b[1] <= 243
             THEN Cont(2) /\ Cont(3) /\ Cont(4) /\ Rest(5)
        ELSE FALSE

\* The GBK decoder on the byte pairs of Bodies; a byte it cannot decode
\* becomes U+FFFD, and it reports no error.
ReplacementChar == <<239, 191, 189>>
GBKPair(b1, b2) ==
    IF <<b1, b2>> = <<196, 227>> THEN <<228, 189, 160>> ELSE ReplacementChar

RECURSIVE ConvertGBKToUTF8(_)
ConvertGBKToUTF8(b) ==
    LET n == Len(b)
    IN  IF b = NilBytes \/ n = 0 THEN << >>
        ELSE IF b[1] < 128
             THEN <<b[1]>> \o ConvertGBKToUTF8(SubSeq(b, 2, n))
        ELSE IF b[1] = 128
             THEN <<226, 130, 172>> \o ConvertGBKToUTF8(SubSeq(b, 2, n))
        ELSE IF b[1] <= 254 /\ n >= 2 /\ b[2] >= 64 /\ b[2] <= 254
                /\ b[2] # 127
             THEN GBKPair(b[1], b[2]) \o ConvertGBKToUTF8(SubSeq(b, 3, n))
        ELSE ReplacementChar \o ConvertGBKToUTF8(SubSeq(b, 2, n))

\* json.Indent succeeds on the bodies of the model that are JSON texts.
JsonIndentOK(b) == b = <<123, 125>>

\* The envelope as Request.Do builds it (body nil, Err nil, mutex free), or a
\* zero-value Response (Response == nil, the case Body, StatusCode and Header
\* test for); the stream of a transport response.
ResponseInit ==
    /\ hasResponse \in BOOLEAN
    /\ body = NilBytes
    /\ respErr = NoErr
    /\ bodyMutex = 0
    /\ IF hasResponse
       THEN /\ sKind \in StreamKinds
            /\ sData \in Bodies
            /\ sFailsLeft \in 0 .. MaxReadFailures
       ELSE /\ sKind = "std"
            /\ sData = << >>
            /\ sFailsLeft = 0
    /\ sClosed = FALSE
    /\ B0 = sData
    /\ pc = [t \in Threads |-> "idle"]
    /\ op = [t \in Threads |-> "none"]
    /\ tmp = [t \in Threads |-> NilBytes]
    /\ tmpErr = [t \in Threads |-> NoErr]
    /\ ret = [t \in Threads |-> NilBytes]
    /\ retLog = [t \in Threads |-> << >>]
    /\ callsLeft = [t \in Threads |-> MaxCalls]
    /\ file = NilBytes
    /\ readLog = << >>
    /\ streamCloses = 0

\* No envelope in use: the state of the response variables while the
\* executor is studied.
NoResponseInit ==
    /\ hasResponse = FALSE
    /\ body = NilBytes
    /\ respErr = NoErr
    /\ bodyMutex = 0
    /\ sKind = "std"
    /\ sData = << >>
    /\ sFailsLeft = 0
    /\ sClosed = FALSE
    /\ B0 = << >>
    /\ pc = [t \in Threads |-> "idle"]
    /\ op = [t \in Threads |-> "none"]
    /\ tmp = [t \in Threads |-> NilBytes]
    /\ tmpErr = [t \in Threads |-> NoErr]
    /\ ret = [t \in Threads |-> NilBytes]
    /\ retLog = [t \in Threads |-> << >>]
    /\ callsLeft = [t \in Threads |-> 0]
    /\ file = NilBytes
    /\ readLog = << >>
    /\ streamCloses = 0

\* io.ReadAll on the stream: an error after Close for a transport body
\* ("std"; an io.NopCloser-style body, "nop", ignores Close), an error while
\* the stream still has failures to give, else all the bytes left, as a
\* non-nil slice.
ReadAll ==
    IF sKind = "std" /\ sClosed
    THEN [content |-> << >>, err |-> "read on closed response body",
          data |-> sData, failsLeft |-> sFailsLeft]
    ELSE IF sFailsLeft > 0
    THEN [content |-> << >>, err |-> "read failed",
          data |-> sData, failsLeft |-> sFailsLeft - 1]
    ELSE [content |-> sData, err |-> NoErr,
          data |-> << >>, failsLeft |-> sFailsLeft]

\* A panic ends the process.
NoPanic == \A u \in Threads : pc[u] # "panicked"
At(t, label) == pc[t] = label /\ NoPanic

BodyOps == {"Body"}
ViewOps == {"String", "ToMap", "JSON", "ToBytesBuffer"}

\* The verb helpers of the Client that the threads call, and their methods.
VerbHelpers == {"Get", "Post"}
VerbMethod(o) == IF o = "Get" THEN MethodGet ELSE "POST"

EntryLabel(o) ==
    CASE o = "SaveToFile" -> "s_check"
      [] o = "DetectEncoding" -> "de_lock"
      [] o \in VerbHelpers -> "h_set"
      [] OTHER -> "b_enter"

\* A thread calls operation o: an operation of the envelope, or a verb helper
\* of the Client.
Call(t, o) ==
    /\ At(t, "idle")
    /\ callsLeft[t] > 0
    /\ callsLeft' = [callsLeft EXCEPT ![t] = @ - 1]
    /\ op' = [op EXCEPT ![t] = o]
    /\ pc' = [pc EXCEPT ![t] = EntryLabel(o)]
    /\ UNCHANGED <<hasResponse, body, respErr, bodyMutex, sKind, sData,
                   sClosed, sFailsLeft, tmp, tmpErr, ret, retLog, file,
                   readLog, streamCloses, B0>>
    /\ UNCHANGED <<clientVars, reqVars, execVars, histVars, helperVars>>

NeedsReadAlways(b, stream) == stream
NeedsRead(b, stream) == b = NilBytes /\ stream

\* Body: the nil-Response return, else Lock and the test of the cache.
BodyEnter(t) ==
    /\ At(t, "b_enter")
    /\ IF ~hasResponse
       THEN /\ ret' = [ret EXCEPT ![t] = NilBytes]
            /\ pc' = [pc EXCEPT ![t] = "b_done"]
            /\ UNCHANGED bodyMutex
       ELSE /\ bodyMutex = 0
            /\ bodyMutex' = t
            /\ pc' = [pc EXCEPT ![t] =
                        IF NeedsRead(body, TRUE) THEN "b_read" ELSE "b_ret"]
            /\ UNCHANGED ret
    /\ UNCHANGED <<hasResponse, body, respErr, sKind, sData, sClosed,
                   sFailsLeft, op, tmp, tmpErr, retLog, callsLeft, file,
                   readLog, streamCloses, B0>>
    /\ UNCHANGED <<clientVars, reqVars, execVars, histVars, helperVars>>

\* readBody: io.ReadAll(body).
StreamRead(t, next) ==
    LET r == ReadAll
    IN  /\ tmp' = [tmp EXCEPT ![t] = IF r.err = NoErr
                                     THEN r.content ELSE NilBytes]
        /\ tmpErr' = [tmpErr EXCEPT ![t] = r.err]
        /\ sData' = r.data
        /\ sFailsLeft' = r.failsLeft
        /\ readLog' = Append(readLog, IF r.err = NoErr THEN "ok" ELSE "err")
        /\ pc' = [pc EXCEPT ![t] = next]
        /\ UNCHANGED <<hasResponse, body, respErr, bodyMutex, sKind, sClosed,
                       op, ret, retLog, callsLeft, file, streamCloses, B0>>
        /\ UNCHANGED <<clientVars, reqVars, execVars, histVars, helperVars>>

BodyRead(t) ==
    /\ At(t, "b_read")
    /\ StreamRead(t, "b_close")

\* readBody returns (its deferred Close runs) and Body stores the result; on
\* an error it records Err and returns nil, unlocking.
BodyClose(t) ==
    /\ At(t, "b_close")
    /\ sClosed' = TRUE
    /\ streamCloses' = streamCloses + 1
    /\ body' = tmp[t]
    /\ tmp' = [tmp EXCEPT ![t] = NilBytes]
    /\ tmpErr' = [tmpErr EXCEPT ![t] = NoErr]
    /\ IF tmpErr[t] # NoErr
       THEN /\ respErr' = tmpErr[t]
            /\ ret' = [ret EXCEPT ![t] = NilBytes]
            /\ bodyMutex' = 0
            /\ pc' = [pc EXCEPT ![t] = "b_done"]
       ELSE /\ pc' = [pc EXCEPT ![t] = "b_ret"]
            /\ UNCHANGED <<respErr, ret, bodyMutex>>
    /\ UNCHANGED <<hasResponse, sKind, sData, sFailsLeft, op, retLog,
                   callsLeft, file, readLog, B0>>
    /\ UNCHANGED <<clientVars, reqVars, execVars, histVars, helperVars>>

\* return r.body, then the deferred Unlock.
BodyReturn(t) ==
    /\ At(t, "b_ret")
    /\ ret' = [ret EXCEPT ![t] = body]
    /\ bodyMutex' = 0
    /\ pc' = [pc EXCEPT ![t] = "b_done"]
    /\ UNCHANGED <<hasResponse, body, respErr, sKind, sData, sClosed,
                   sFailsLeft, op, tmp, tmpErr, retLog, callsLeft, file,
                   readLog, streamCloses, B0>>
    /\ UNCHANGED <<clientVars, reqVars, execVars, histVars, helperVars>>

\* The caller of Body() has its result.
BodyDone(t) ==
    /\ At(t, "b_done")
    /\ op[t] \in BodyOps
    /\ retLog' = [retLog EXCEPT ![t] = Append(@, ret[t])]
    /\ pc' = [pc EXCEPT ![t] = "idle"]
    /\ op' = [op EXCEPT ![t] = "none"]
    /\ ret' = [ret EXCEPT ![t] = NilBytes]
    /\ UNCHANGED <<hasResponse, body, respErr, bodyMutex, sKind, sData,
                   sClosed, sFailsLeft, tmp, tmpErr, callsLeft, file,
                   readLog, streamCloses, B0>>
    /\ UNCHANGED <<clientVars, reqVars, execVars, histVars, helperVars>>

\* String, ToMap, JSON, ToBytesBuffer: one Body() call, then a pure function
\* of its result.
ViewDone(t) ==
    /\ At(t, "b_done")
    /\ op[t] \in ViewOps \cup {"PrettyPrint.String"}
    /\ pc' = [pc EXCEPT ![t] = "idle"]
    /\ op' = [op EXCEPT ![t] = "none"]
    /\ ret' = [ret EXCEPT ![t] = NilBytes]
    /\ UNCHANGED <<hasResponse, body, respErr, bodyMutex, sKind, sData,
                   sClosed, sFailsLeft, tmp, tmpErr, retLog,
                   callsLeft, file, readLog, streamCloses, B0>>
    /\ UNCHANGED <<clientVars, reqVars, execVars, histVars, helperVars>>

\* PrettyPrint: json.Indent of Body(); when that fails, String().
PrettyPrintAfterBody(t) ==
    /\ At(t, "b_done")
    /\ op[t] = "PrettyPrint"
    /\ IF JsonIndentOK(ret[t])
       THEN /\ pc' = [pc EXCEPT ![t] = "idle"]
            /\ op' = [op EXCEPT ![t] = "none"]
       ELSE /\ pc' = [pc EXCEPT ![t] = "b_enter"]
            /\ op' = [op EXCEPT ![t] = "PrettyPrint.String"]
    /\ ret' = [ret EXCEPT ![t] = NilBytes]
    /\ UNCHANGED <<hasResponse, body, respErr, bodyMutex, sKind, sData,
                   sClosed, sFailsLeft, tmp, tmpErr, retLog, callsLeft,
                   file, readLog, streamCloses, B0>>
    /\ UNCHANGED <<clientVars, reqVars, execVars, histVars, helperVars>>

\* SaveToFile: the test of r.body, made without the mutex.
SaveCheck(t) ==
    /\ At(t, "s_check")
    /\ pc' = [pc EXCEPT ![t] =
                IF body = NilBytes
                THEN (IF hasResponse THEN "s_read" ELSE "panicked")
                ELSE "s_write"]
    /\ UNCHANGED <<hasResponse, body, respErr, bodyMutex, sKind, sData,
                   sClosed, sFailsLeft, op, tmp, tmpErr, ret, retLog,
                   callsLeft, file, readLog, streamCloses, B0>>
    /\ UNCHANGED <<clientVars, reqVars, execVars, histVars, helperVars>>

SaveRead(t) ==
    /\ At(t, "s_read")
    /\ StreamRead(t, "s_close")

\* readBody returns (Close), r.body is assigned; an error is returned.
SaveClose(t) ==
    /\ At(t, "s_close")
    /\ sClosed' = TRUE
    /\ streamCloses' = streamCloses + 1
    /\ body' = tmp[t]
    /\ tmp' = [tmp EXCEPT ![t] = NilBytes]
    /\ tmpErr' = [tmpErr EXCEPT ![t] = NoErr]
    /\ IF tmpErr[t] # NoErr
       THEN /\ pc' = [pc EXCEPT ![t] = "idle"]
            /\ op' = [op EXCEPT ![t] = "none"]
       ELSE /\ pc' = [pc EXCEPT ![t] = "s_write"]
            /\ UNCHANGED op
    /\ UNCHANGED <<hasResponse, respErr, bodyMutex, sKind, sData, sFailsLeft,
                   ret, retLog, callsLeft, file, readLog, B0>>
    /\ UNCHANGED <<clientVars, reqVars, execVars, histVars, helperVars>>

\* os.WriteFile(filepath, r.body, 0644)
SaveWrite(t) ==
    /\ At(t, "s_write")
    /\ file' = IF body = NilBytes THEN << >> ELSE body
    /\ pc' = [pc EXCEPT ![t] = "idle"]
    /\ op' = [op EXCEPT ![t] = "none"]
    /\ UNCHANGED <<hasResponse, body, respErr, bodyMutex, sKind, sData,
                   sClosed, sFailsLeft, tmp, tmpErr, ret, retLog,
                   callsLeft, readLog, streamCloses, B0>>
    /\ UNCHANGED <<clientVars, reqVars, execVars, histVars, helperVars>>

\* DetectEncoding: Lock, then the call of Body().
DetectLock(t) ==
    /\ At(t, "de_lock")
    /\ bodyMutex = 0
    /\ bodyMutex' = t
    /\ pc' = [pc EXCEPT ![t] = "b_enter"]
    /\ UNCHANGED <<hasResponse, body, respErr, sKind, sData, sClosed,
                   sFailsLeft, op, tmp, tmpErr, ret, retLog, callsLeft, file,
                   readLog, streamCloses, B0>>
    /\ UNCHANGED <<clientVars, reqVars, execVars, histVars, helperVars>>

\* DetectEncoding after Body() has returned: the UTF-8 test, the conversion,
\* the deferred Unlock.
DetectAfterBody(t) ==
    /\ At(t, "b_done")
    /\ op[t] = "DetectEncoding"
    /\ body' = IF ~Utf8Valid(ret[t]) THEN ConvertGBKToUTF8(ret[t]) ELSE body
    /\ bodyMutex' = 0
    /\ pc' = [pc EXCEPT ![t] = "idle"]
    /\ op' = [op EXCEPT ![t] = "none"]
    /\ ret' = [ret EXCEPT ![t] = NilBytes]
    /\ UNCHANGED <<hasResponse, respErr, sKind, sData, sClosed, sFailsLeft,
                   tmp, tmpErr, retLog, callsLeft, file, readLog,
                   streamCloses, B0>>
    /\ UNCHANGED <<clientVars, reqVars, execVars, histVars, helperVars>>

\* ------------------------------------------------------------ verb helpers
\* No verb helper has been called and the caller has configured no method.
NoHelperInit ==
    /\ hMethod = [t \in Threads |-> ""]
    /\ hDispatched = [t \in Threads |-> << >>]
    /\ hConfigured = ""

\* The variables of the envelope and of the one-descriptor executor, which
\* the verb helpers of the threads leave alone.
HelperFrame ==
    /\ UNCHANGED <<hasResponse, body, respErr, bodyMutex, sKind, sData,
                   sClosed, sFailsLeft, tmp, tmpErr, ret, retLog, callsLeft,
                   file, readLog, streamCloses, B0>>
    /\ UNCHANGED <<cRetryMax, cUserInfo, cBasicAuthToken, cAuthScheme,
                   cHeaderAuthorizationKey, cBaseURL, cTimeout, cHook, cStore>>
    /\ UNCHANGED <<reqVars, execVars, histVars>>

\* Client.SetMethod called by the owner of the client while no helper runs.
ClientSetMethod(method) ==
    /\ \A t \in Threads : At(t, "idle")
    /\ cMethod' = method
    /\ hConfigured' = method
    /\ UNCHANGED <<pc, op, hMethod, hDispatched, httpTimeout>>
    /\ HelperFrame

\* c.SetMethod(verb's method), the first call of a verb helper.
HelperSetMethod(t) ==
    /\ At(t, "h_set")
    /\ cMethod' = VerbMethod(op[t])
    /\ pc' = [pc EXCEPT ![t] = "h_r"]
    /\ UNCHANGED <<op, hMethod, hDispatched, hConfigured, httpTimeout>>
    /\ HelperFrame

\* c.R() in a verb helper: the descriptor's method is the client's method
\* at that moment (GET, written to the client, when it is empty).
HelperR(t) ==
    /\ At(t, "h_r")
    /\ cMethod' = IF cMethod = "" THEN MethodGet ELSE cMethod
    /\ hMethod' = [hMethod EXCEPT ![t] = cMethod']
    /\ pc' = [pc EXCEPT ![t] = "h_exec"]
    /\ UNCHANGED <<op, hDispatched, hConfigured, httpTimeout>>
    /\ HelperFrame

\* Execute(url) in a verb helper, as far as the method goes: the request is
\* dispatched with the descriptor's method (Do copies the timeout as in
\* DoSend), and the helper returns.
HelperExecute(t) ==
    /\ At(t, "h_exec")
    /\ hDispatched' = [hDispatched EXCEPT
                         ![t] = <<[verb |-> op[t], Method |-> hMethod[t]]>>]
    /\ httpTimeout' = IF cTimeout > 0 THEN cTimeout ELSE httpTimeout
    /\ pc' = [pc EXCEPT ![t] = "idle"]
    /\ op' = [op EXCEPT ![t] = "none"]
    /\ UNCHANGED <<cMethod, hMethod, hConfigured>>
    /\ HelperFrame

\* ---------------------------------------------------------- specifications
\* The executor: one client, the descriptor of its latest R(), one Execute
\* at a time.
Init ==
    /\ NewClientInit /\ NoRequestInit /\ ExecIdleInit /\ NoResponseInit
    /\ NoHelperInit

Next ==
    \/ \E n \in RetryArgs : SetRetryMax(n)
    \/ \E u \in Credentials : SetBasicAuth(u)
    \/ \E token \in Tokens : SetBasicAuthToken(token)
    \/ \E scheme \in Schemes : SetAuthScheme(scheme)
    \/ \E f \in Hooks : SetHandleRequestResultFunc(f)
    \/ \E timeout \in Timeouts : SetTimeout(timeout)
    \/ R
    \/ \E method \in Methods : RequestSetMethod(method)
    \/ \E ctx \in Contexts : SetContext(ctx)
    \/ \E urlPath \in UrlPaths : ExecuteBegin(urlPath)
    \/ DoSend
    \/ DoComplete
    \/ ExecuteExhausted

Spec == Init /\ [][Next]_vars

\* One envelope shared by the threads, which call Body() only.
InitResponse ==
    /\ NewClientInit /\ NoRequestInit /\ ExecIdleInit /\ ResponseInit
    /\ NoHelperInit

BodyStep(t) ==
    \/ BodyEnter(t)
    \/ BodyRead(t)
    \/ BodyClose(t)
    \/ BodyReturn(t)
    \/ BodyDone(t)

NextBody == \E t \in Threads : (\E o \in BodyOps : Call(t, o)) \/ BodyStep(t)

SpecBody == InitResponse /\ [][NextBody]_vars

\* The threads call Body(), the derived views and SaveToFile.
AllViewOps == BodyOps \cup ViewOps \cup {"PrettyPrint", "SaveToFile"}

ViewStep(t) ==
    \/ BodyStep(t)
    \/ ViewDone(t)
    \/ PrettyPrintAfterBody(t)
    \/ SaveCheck(t)
    \/ SaveRead(t)
    \/ SaveClose(t)
    \/ SaveWrite(t)

NextViews ==
    \E t \in Threads : (\E o \in AllViewOps : Call(t, o)) \/ ViewStep(t)

SpecViews == InitResponse /\ [][NextViews]_vars

\* The threads call Body() and DetectEncoding().  A goroutine that can take a
\* step eventually takes one.
DetectOps == BodyOps \cup {"DetectEncoding"}

DetectStep(t) ==
    \/ \E o \in DetectOps : Call(t, o)
    \/ BodyStep(t)
    \/ DetectLock(t)
    \/ DetectAfterBody(t)

NextDetect == \E t \in Threads : DetectStep(t)

SpecDetect ==
    /\ InitResponse
    /\ [][NextDetect]_vars
    /\ \A t \in Threads : WF_vars(DetectStep(t))

\* The parameter store: the setters of one client and of the descriptor of
\* its latest R().
ClientSetterStep ==
    \/ \E key \in SetHeaderKeys, value \in SetHeaderValues :
          ClientSetHeader(key, value)
    \/ \E key \in ParamKeys, value \in ParamValues :
          ClientSetQueryParam(key, value)
    \/ \E key \in ParamKeys, value \in ParamValues :
          ClientSetFormParam(key, value)
    \/ \E cookies \in CookieStrings : ClientSetCookie(cookies)
    \/ \E cookie \in RawCookies : ClientSetCookieRaw(cookie)
    \/ \E b \in BodyStrings : ClientSetBody(b)
    \/ ClearCookies

RequestSetterStep ==
    \/ \E key \in SetHeaderKeys, value \in SetHeaderValues :
          RequestSetHeader(key, value)
    \/ \E key \in ParamKeys, value \in ParamValues :
          RequestSetQueryParam(key, value)
    \/ \E key \in ParamKeys, value \in ParamValues :
          RequestSetFormParam(key, value)
    \/ \E cookies \in CookieStrings : RequestSetCookie(cookies)
    \/ \E cookie \in RawCookies : RequestSetCookieRaw(cookie)
    \/ \E b \in BodyStrings : RequestSetBody(b)
    \/ \E data \in JsonStrings : RequestSetBodyJSON(data)

NextStore ==
    \/ ClientSetterStep
    \/ R
    \/ RequestSetterStep

SpecStore == Init /\ [][NextStore]_vars

\* URL and body of the request an Execute assembles and dispatches: a base
\* URL, query parameters and a body are set, then the descriptor is executed.
NextUrl ==
    \/ \E baseURL \in BaseURLs : SetBaseURL(baseURL)
    \/ R
    \/ \E key \in ParamKeys, value \in ParamValues :
          RequestSetQueryParam(key, value)
    \/ \E b \in BodyStrings : RequestSetBody(b)
    \/ \E urlPath \in UrlTargets : ExecuteBegin(urlPath)
    \/ DoSend
    \/ DoComplete
    \/ ExecuteExhausted

SpecUrl == Init /\ [][NextUrl]_vars

\* Body and form parameters of a descriptor that is executed, once or twice.
NextForm ==
    \/ R
    \/ \E key \in ParamKeys, value \in ParamValues :
          RequestSetFormParam(key, value)
    \/ \E b \in BodyStrings : RequestSetBody(b)
    \/ \E urlPath \in UrlPaths : ExecuteBegin(urlPath)
    \/ DoSend
    \/ DoComplete
    \/ ExecuteExhausted

SpecForm == Init /\ [][NextForm]_vars

\* The threads call the verb helpers Get and Post on one client, whose owner
\* may have configured a method.
InitHelpers ==
    /\ NewClientInit /\ NoRequestInit /\ ExecIdleInit
    /\ ResponseInit /\ ~hasResponse
    /\ NoHelperInit

HelperStep(t) ==
    \/ \E o \in VerbHelpers : Call(t, o)
    \/ HelperSetMethod(t)
    \/ HelperR(t)
    \/ HelperExecute(t)

NextHelpers ==
    \/ \E method \in Methods : ClientSetMethod(method)
    \/ \E t \in Threads : HelperStep(t)

SpecHelpers == InitHelpers /\ [][NextHelpers]_vars

\* ------------------------------------------------------------------ claims
Count(ev) == Cardinality({k \in 1 .. Len(log) : log[k].ev = ev})
Max(a, b) == IF a >= b THEN a ELSE b

\* n dispatches, each followed by a transport error, and nothing else.
AllFailedLog(n) ==
    /\ Len(log) = 2 * n
    /\ \A k \in 1 .. n : log[2 * k - 1].ev = "send" /\ log[2 * k].ev = "err"

\* C1: with a retry ceiling N >= 1 and a transport that fails on every
\* attempt, Execute dispatches exactly N times, one attempt after the other
\* (at most one dispatch is in flight, and an attempt after the first starts
\* right after the failure of the one before), then returns a nil response
\* and a non-nil error.
C1_ExhaustedRetries ==
    /\ Count("send") - Count("err") - Count("resp") \in {0, 1}
    /\ \A k \in 2 .. Len(log) : log[k].ev = "send" => log[k - 1].ev = "err"
    /\ (pcE = "returned" /\ asmOutcome = "ok" /\ cRetryMax >= 1
            /\ Count("resp") = 0)
        => /\ AllFailedLog(cRetryMax)
           /\ retResp = << >>
           /\ retErr # NoErr

C1_Witness ==
    /\ pcE = "returned"
    /\ asmOutcome = "ok"
    /\ cRetryMax = 2
    /\ rCtx = "cancelled"
    /\ AllFailedLog(2)
    /\ retResp = << >>

\* C2: a transport response of any status ends Execute at once: it is the
\* last event of the call, Execute returns it in an envelope with a nil
\* error, and for a 500 IsServerError() is true; a response to the first
\* dispatch means exactly one dispatch.
C2_FirstResponseReturned ==
    /\ \A k \in 1 .. Len(log) :
          log[k].ev = "resp" => k = Len(log) /\ Idle
    /\ (pcE = "returned" /\ Count("resp") > 0)
        => /\ retErr = NoErr
           /\ retResp # << >>
           /\ StatusCode(retResp[1]) = log[Len(log)].status
           /\ (log[Len(log)].status = 500 => IsServerError(retResp[1]))
           /\ (log[2].ev = "resp" => Count("send") = 1)

C2_Witness ==
    /\ pcE = "returned"
    /\ log = <<LogEntry("send", 0), LogEntry("resp", 500)>>
    /\ retErr = NoErr
    /\ retResp # << >>
    /\ IsServerError(retResp[1])

\* C8: after SetRetryMax(n), an Execute against a transport that always
\* fails dispatches exactly max(1, n) times.
C8_RetryCeilingClamped ==
    (pcE = "returned" /\ asmOutcome = "ok" /\ lastRetryArg # << >>
        /\ Count("resp") = 0)
    => Count("send") = Max(1, lastRetryArg[1])

\* C9: with user credentials set on the client, an Execute of a descriptor
\* that has a method and a URL that parses assembles without failing, and
\* the request it dispatches carries Basic auth for those credentials.
C9_BasicAuthOnWire ==
    (cUserInfo # << >> /\ pcE # "idle" /\ asmOutcome # "none"
        /\ rMethod # "" /\ UrlParses(cBaseURL \o <<"/">> \o rUrlPoint))
    => /\ asmOutcome = "ok"
       /\ wire # << >> =>
            wire[1].Header[defaultHeaderAuthorizationKey]
                = BasicAuthValue(cUserInfo[1])

\* C10: with no user credentials and a non-blank token, the dispatched
\* request has Authorization equal to scheme, a space, token.
C10_BearerOnWire ==
    (cUserInfo = << >> /\ ~IsStringEmpty(cBasicAuthToken)
        /\ pcE \in {"inflight", "returned"} /\ wire # << >>)
    => wire[1].Header[defaultHeaderAuthorizationKey]
           = cAuthScheme \o <<" ">> \o cBasicAuthToken

IsEmptyResult(b) == b = NilBytes \/ b = << >>
Returned == {<<t, k>> \in Threads \X (1 .. MaxCalls) : k <= Len(retLog[t])}

\* C3: when the read of the stream succeeds, every completed Body() call
\* (so the first and the second of a thread) returned the bytes B of the
\* stream, and the stream has been read once and closed once.
C3_BodyTwiceSameBytes ==
    (hasResponse /\ (readLog # << >> => readLog[1] = "ok"))
    => /\ Len(readLog) <= 1
       /\ streamCloses <= 1
       /\ \A c \in Returned :
             /\ retLog[c[1]][c[2]] = B0
             /\ readLog = <<"ok">>
             /\ streamCloses = 1

C3_Witness ==
    /\ hasResponse
    /\ B0 = <<123, 125>>
    /\ readLog = <<"ok">>
    /\ streamCloses = 1
    /\ \E t \in Threads : retLog[t] = <<B0, B0>>

\* C4: whatever the interleaving of concurrent Body() calls, the stream is
\* read exactly once and all callers get the same bytes.
C4_ConcurrentBodyReadOnce ==
    hasResponse
    => /\ Len(readLog) <= 1
       /\ \A c \in Returned : Len(readLog) = 1
       /\ \A c, d \in Returned : retLog[c[1]][c[2]] = retLog[d[1]][d[2]]

\* C5: with Body(), the derived views and SaveToFile running in several
\* threads, the stream is read at most once (stated for the runs in which
\* no read fails).
C5_ViewsNeverReadTwice ==
    (hasResponse /\ \A k \in 1 .. Len(readLog) : readLog[k] = "ok")
    => Len(readLog) <= 1

\* C6: once the first read of the stream has failed, Err is recorded and
\* every Body() call, the failing one and all later ones, returns an empty
\* result.
C6_FailedReadStaysEmpty ==
    (hasResponse /\ readLog # << >> /\ readLog[1] = "err")
    => \A c \in Returned :
          /\ respErr # NoErr
          /\ IsEmptyResult(retLog[c[1]][c[2]])

\* C7: a DetectEncoding call on an envelope whose bytes are valid UTF-8
\* returns, and leaves the cached bytes as they were.
C7_DetectEncodingReturns ==
    \A t \in Threads :
        (pc[t] = "de_lock" /\ hasResponse /\ Utf8Valid(B0))
            ~> (pc[t] = "idle" /\ body \in {NilBytes, B0})

\* --------------------------------------------------------- URL of a request
\* p without its leading "/" characters.
WithoutLeadingSlashes(p) ==
    LET k == Cardinality({j \in 1 .. Len(p) :
                             \A m \in 1 .. j : p[m] = "/"})
    IN  SubSeq(p, k + 1, Len(p))

\* The host of base URL b ends in an empty port ("h:").
HasEmptyPort(b) == HasSuffix(Parse(b).url.Host, <<":">>)

\* The descriptor's Execute has assembled its request and nothing has been
\* set since.
Assembled ==
    /\ pcE \in {"loop", "inflight", "returned"}
    /\ asmOutcome = "ok"
    /\ rRequest # << >>

\* C11: for a base URL B set with SetBaseURL (its host not ending in an
\* empty port, which C19 is about), a target P and query parameters Q, the
\* URL of the assembled request is B without its trailing "/", then "/",
\* then P without leading "/", then "?" and the encoded Q when Q is not
\* empty.
C11_ResolvedURL ==
    (Assembled /\ cBaseURL # << >> /\ ~HasEmptyPort(cBaseURL))
    => URLString(rRequest[1].URL)
         = cBaseURL \o <<"/">> \o WithoutLeadingSlashes(rUrlPoint)
             \o (IF DOMAIN rQueryParams # {}
                 THEN <<"?">> \o Encode(rQueryParams)
                 ELSE << >>)

\* C12: on a client with no base URL, an Execute (as Get does) with the
\* absolute URL U as its target dispatches a request whose URL is exactly U:
\* the same scheme, host and path.
C12_AbsoluteURLOnWire ==
    (cBaseURL = << >> /\ rUrlPoint = AbsoluteURL /\ DOMAIN rQueryParams = {}
        /\ pcE \in {"inflight", "returned"} /\ wire # << >>)
    => /\ URLString(wire[1].URL) = AbsoluteURL
       /\ wire[1].URL.Scheme = <<"h", "t", "t", "p", "s">>
       /\ wire[1].URL.Host = <<"e", ".", "c">>
       /\ wire[1].URL.Path = <<"/", "d">>

\* ------------------------------------------------------ the parameter store
\* What a descriptor holds of the parameter store.
DescriptorView == <<rHeader, rQueryParams, rFormParams, rCookies, rBody>>

\* C13: after d = Client.R(), a call of a Client setter (SetHeader,
\* SetQueryParam, SetFormParam, SetCookie, SetCookieRaw, SetBody,
\* ClearCookies) leaves d's headers, query parameters, form parameters,
\* cookies and body as they were, and a call of a setter of d leaves the
\* Client's defaults as they were.
C13_SnapshotIsolation ==
    [][/\ (rExists /\ ClientSetterStep) => DescriptorView' = DescriptorView
       /\ RequestSetterStep => cStore' = cStore]_vars

C13_Witness ==
    /\ rExists
    /\ DOMAIN cQueryParams # {}
    /\ DOMAIN rQueryParams = {}
    /\ rBody = <<"h", "i">>
    /\ cBody = << >>

\* ------------------------------------------------------- Execute and the hook
\* A step of Execute: assembly with the hook, a dispatch, its completion, the
\* return after the last attempt.
ExecuteStep ==
    \/ \E urlPath \in UrlPaths : ExecuteBegin(urlPath)
    \/ DoSend
    \/ DoComplete
    \/ ExecuteExhausted

\* C14: no step of Execute (assembly, hook, dispatch attempts) writes a field
\* of the Client or of the HTTP client it shares.
C14_ExecuteReadsClientOnly ==
    [][ExecuteStep => clientVars' = clientVars]_vars

\* The error of the assembly of the descriptor as it stands: its URL does not
\* parse, or it has no method.
AssemblyError ==
    LET parsed == Parse(cBaseURL \o <<"/">> \o prepareRequestURL(rUrlPoint))
    IN  IF parsed.err # NoErr THEN parsed.err
        ELSE IF rMethod = "" THEN "HTTP method is not set"
        ELSE NoErr

\* C15: when the descriptor has no method or its URL does not parse, Execute
\* returns that assembly error and a nil response, without a dispatch and
\* without a call of the hook, whatever the retry ceiling is.
C15_AssemblyFailureNotRetried ==
    (pcE # "idle" /\ asmOutcome # "none" /\ AssemblyError # NoErr)
    => /\ pcE = "returned"
       /\ asmOutcome = "error"
       /\ retErr = AssemblyError
       /\ retResp = << >>
       /\ Count("send") = 0
       /\ wire = << >>
       /\ hookCalls = 0

C15_Witness ==
    /\ pcE = "returned"
    /\ rMethod = ""
    /\ rUrlPoint = <<"a">>
    /\ cHook = "trace"
    /\ cRetryMax = retryMax
    /\ retErr = "HTTP method is not set"
    /\ log = << >>

\* A request without its body stream, which a dispatch uses up.
SansBody(req) == [req EXCEPT !.Body = << >>]

\* C16: when assembly succeeds and the Client has a hook, the hook has been
\* called exactly once by the time the retry loop starts and is not called
\* again, however many attempts are made; the request of the descriptor is
\* the one the hook returned, and every attempt dispatches it.
C16_HookOncePerExecute ==
    (asmOutcome = "ok" /\ cHook # "nil"
        /\ pcE \in {"loop", "inflight", "returned"})
    => /\ hookCalls = 1
       /\ rRequest # << >>
       /\ rRequest[1].Header[TraceKey] = <<"1">>
       /\ rRequest[1] = ApplyHook(cHook, rRequest[1])
       /\ wire # << >> => SansBody(wire[1]) = SansBody(rRequest[1])
       /\ Count("send") > 0 => wire # << >>

C16_Witness ==
    /\ pcE = "returned"
    /\ asmOutcome = "ok"
    /\ cHook = "trace"
    /\ Count("send") = retryMax
    /\ hookCalls = 1
    /\ wire[1].Header[TraceKey] = <<"1">>

\* s starts with "{" and ends with "}", or starts with "[" and ends with "]".
BracketShaped(s) ==
    /\ s # << >>
    /\ \/ s[1] = "{" /\ s[Len(s)] = "}"
       \/ s[1] = "[" /\ s[Len(s)] = "]"

\* What SetBodyJSON(data) does to the descriptor when it takes the string,
\* and when it does not.
StoredVerbatim(data) ==
    /\ rBody' = data
    /\ rHeader'[ContentTypeKey] = ContentTypeJson
Rejected == rBody' = rBody

\* C17 as stated: Request.SetBodyJSON with a string that starts and ends
\* with "{" "}" or "[" "]" stores it verbatim as the body and sets
\* Content-Type to application/json; with any other string the previous body
\* is left unchanged.
C17_AsStated ==
    [][\A data \in JsonStrings :
          RequestSetBodyJSON(data)
          => IF BracketShaped(data) THEN StoredVerbatim(data) ELSE Rejected]_vars

\* C17: Request.SetBodyJSON with a string that, once the white space around
\* it is trimmed, starts and ends with "{" "}" or "[" "]" stores the string
\* verbatim (white space included) as the body and sets Content-Type to
\* application/json; with any other string the previous body is left
\* unchanged.
C17_SetBodyJSONString ==
    [][\A data \in JsonStrings :
          RequestSetBodyJSON(data)
          => IF BracketShaped(TrimSpace(data))
             THEN StoredVerbatim(data)
             ELSE Rejected]_vars

C17_Witness ==
    /\ rExists
    /\ rBody = <<" ", "{", "}", "\n">>
    /\ rHeader[ContentTypeKey] = ContentTypeJson
    /\ cBody = <<"h", "i">>

\* The cookie of a segment that contains "=": its name is the trimmed text
\* before the first "=", its value is all that follows it.
CookieOfSegment(segment) ==
    LET eq == Index(segment, "=")
    IN  [Name |-> TrimSpace(SubSeq(segment, 1, eq - 1)),
         Value |-> SubSeq(segment, eq + 1, Len(segment))]

\* The cookies of a raw cookie string: one for each ";"-separated segment
\* that contains "=", in order; white space around a segment is not part of
\* it.
CookiesOf(cookies) ==
    LET segments == Split(cookies, ";")
        trimmed == [k \in 1 .. Len(segments) |-> TrimSpace(segments[k])]
        kept == SelectSeq(trimmed, LAMBDA s : Index(s, "=") # 0)
    IN  [k \in 1 .. Len(kept) |-> CookieOfSegment(kept[k])]

\* C18: SetCookie with a raw cookie string, on a descriptor or on the
\* Client, appends to the cookies already there one cookie for each segment
\* that contains "=", in order, named by the trimmed text before the first
\* "=" and valued by what follows it.
C18_SetCookieParses ==
    [][\A cookies \in CookieStrings :
          /\ RequestSetCookie(cookies)
               => rCookies' = rCookies \o CookiesOf(cookies)
          /\ ClientSetCookie(cookies)
               => cCookies' = cCookies \o CookiesOf(cookies)]_vars

\* host without an empty port suffix: "h:" is "h", any other host is itself.
StripEmptyPortSuffix(host) ==
    IF HasSuffix(host, <<":">>) THEN SubSeq(host, 1, Len(host) - 1) ELSE host

\* C19: the host of the assembled request is the host url.Parse found in
\* base URL plus target, with an empty port suffix stripped and nothing else
\* changed: a host with no port or with a port, a bracketed IPv6 literal
\* with a port included, stays as it is.
C19_OnlyEmptyPortStripped ==
    Assembled
    => LET parsed ==
               Parse(cBaseURL \o <<"/">> \o prepareRequestURL(rUrlPoint))
       IN  /\ rRequest[1].URL.Host = StripEmptyPortSuffix(parsed.url.Host)
           /\ rRequest[1].Host = StripEmptyPortSuffix(parsed.url.Host)

\* C20: an attempt after the first of one Execute dispatches the request
\* with its complete body (here the descriptor's body string: no form
\* parameters are set), also when the transport read the body to its end on
\* the attempt before.
C20_RetrySendsFullBody ==
    (pcE = "inflight" /\ i >= 1 /\ DOMAIN rFormParams = {})
    => wire[1].Body = rBody

\* ------------------------------------------------------- body of a request
\* C21: the body of the request the first Execute of a descriptor dispatches
\* first is the resolved body (the encoded form parameters when there are
\* any, else the body string), and a call of the body supplier that assembly
\* installed returns those same bytes.
C21_SupplierYieldsResolvedBody ==
    /\ (pcE = "inflight" /\ executes = 1 /\ i = 0)
         => wire[1].Body = prepareRequestBody
    /\ (Assembled /\ rGetBody) => InstalledGetBody = prepareRequestBody

\* C22: no step of Execute changes the descriptor's headers, query
\* parameters, form parameters, cookies or body string: they are after the
\* call what they were before it.
C22_ExecuteKeepsDescriptor ==
    [][ExecuteStep => DescriptorView' = DescriptorView]_vars

\* ------------------------------------------------------ the response stream
\* C23: the stream of an envelope is read at most once and closed at most
\* once, also when its first read failed: no later Body() or SaveToFile()
\* call reads or closes it again.
C23_StreamReadOnceAfterFailure ==
    (hasResponse /\ readLog # << >> /\ readLog[1] = "err")
    => /\ Len(readLog) <= 1
       /\ streamCloses <= 1

\* C24: a DetectEncoding call on an envelope returned by Execute (its
\* Response is not nil) eventually returns with the mutex released, and a
\* Body() call of any thread eventually returns.
C24_DetectEncodingTerminates ==
    \A t \in Threads :
        /\ (pc[t] = "de_lock" /\ hasResponse)
             ~> (pc[t] = "idle" /\ bodyMutex # t)
        /\ (pc[t] = "b_enter" /\ op[t] = "Body") ~> (pc[t] = "idle")

\* ------------------------------------------------------------ verb helpers
\* C25: with the threads calling Get and Post on one client in any
\* interleaving, each call dispatches its request with the method of its
\* own verb, and once the calls have returned the client's method, which a
\* later R() takes as the default, is still the one its owner configured.
C25_HelpersKeepTheirMethod ==
    /\ \A t \in Threads :
          hDispatched[t] # << >>
          => hDispatched[t][1].Method = VerbMethod(hDispatched[t][1].verb)
    /\ ((\A t \in Threads : pc[t] = "idle") /\ hConfigured # "")
         => cMethod = hConfigured

====
